---- MODULE Spec2Model ----
(***************************************************************************)
(* A model of the retrieval pipeline of src/rag_pipeline.py (class         *)
(* RAGSystem): sentence splitting, passage segmentation, ingestion, TF-IDF *)
(* indexing, cosine retrieval and sentence-level answer extraction.        *)
(*                                                                         *)
(* A Python str is a sequence of one-character strings; a list is a        *)
(* sequence.  A cosine similarity is an integer number of 1/ScoreScale     *)
(* (rounded down); an idf weight is an integer number of tenths.           *)
(***************************************************************************)
EXTENDS Integers, Sequences, FiniteSets

VARIABLES
    documents,              \* self.documents: list of Document
    passages,               \* self.passages: list of Passage
    vectorizer,             \* self.vectorizer: the TfidfVectorizer's fitted state
    passage_vectors,        \* self.passage_vectors: None or one row per fitted passage
    max_words_per_passage,  \* self.max_words_per_passage
    call                    \* the last call made on the object, with its outcome

vars == <<documents, passages, vectorizer, passage_vectors, max_words_per_passage, call>>

---------------------------------------------------------------------------
(* Characters and the str methods the pipeline uses *)

Whitespace == {" ", "\t", "\n", "\r", "\f"}

\* string.punctuation (less the grave accent, which no TLA+ string can hold)
Punctuation ==
    {"!", "\"", "#", "$", "%", "&", "'", "(", ")", "*", "+", ",", "-", ".", "/",
     ":", ";", "<", "=", ">", "?", "@", "[", "\\", "]", "^", "_", "{", "|",
     "}", "~"}

Terminators == {".", "!", "?"}

Digits == {"0", "1", "2", "3", "4", "5", "6", "7", "8", "9"}

UpperLetters ==
    <<"A", "B", "C", "D", "E", "F", "G", "H", "I", "J", "K", "L", "M",
      "N", "O", "P", "Q", "R", "S", "T", "U", "V", "W", "X", "Y", "Z">>

LowerLetters ==
    <<"a", "b", "c", "d", "e", "f", "g", "h", "i", "j", "k", "l", "m",
      "n", "o", "p", "q", "r", "s", "t", "u", "v", "w", "x", "y", "z">>

LowerChar(c) ==
    IF \E i \in 1..Len(UpperLetters) : UpperLetters[i] = c
    THEN LowerLetters[CHOOSE i \in 1..Len(UpperLetters) : UpperLetters[i] = c]
    ELSE c

\* the list with the given items: a function on 1..n as a sequence
List(items) == <<>> \o items

Range(seq) == {seq[i] : i \in 1..Len(seq)}

\* str.lower()
lower(s) == List([i \in 1..Len(s) |-> LowerChar(s[i])])

RECURSIVE SplitFrom(_, _)
\* the words of s from position i on: the next word runs from the first
\* character that is no whitespace to the last before whitespace or the end
SplitFrom(s, i) ==
    IF \A j \in i..Len(s) : s[j] \in Whitespace
    THEN <<>>
    ELSE LET start == CHOOSE j \in i..Len(s) :
                          /\ s[j] \notin Whitespace
                          /\ \A k \in i..(j - 1) : s[k] \in Whitespace
             end == CHOOSE e \in start..Len(s) :
                        /\ e = Len(s) \/ s[e + 1] \in Whitespace
                        /\ \A k \in start..e : s[k] \notin Whitespace
         IN  <<SubSeq(s, start, end)>> \o SplitFrom(s, end + 1)

\* str.split(): the maximal runs of non-whitespace characters
split(s) == SplitFrom(s, 1)

RECURSIVE join(_, _)
\* sep.join(parts)
join(sep, parts) ==
    IF parts = <<>> THEN <<>>
    ELSE IF Len(parts) = 1 THEN parts[1]
    ELSE parts[1] \o sep \o join(sep, Tail(parts))

RECURSIVE LStrip(_, _)
LStrip(s, chars) ==
    IF s # <<>> /\ s[1] \in chars THEN LStrip(Tail(s), chars) ELSE s

RECURSIVE RStrip(_, _)
RStrip(s, chars) ==
    IF s # <<>> /\ s[Len(s)] \in chars THEN RStrip(SubSeq(s, 1, Len(s) - 1), chars) ELSE s

\* str.strip(chars); str.strip() is strip(s, Whitespace)
strip(s, chars) == RStrip(LStrip(s, chars), chars)

\* sub in s
IsSubstring(sub, s) ==
    \E i \in 0..(Len(s) - Len(sub)) : SubSeq(s, i + 1, i + Len(sub)) = sub

\* s.endswith(suffix)
EndsWith(s, suffix) ==
    /\ Len(s) >= Len(suffix)
    /\ SubSeq(s, Len(s) - Len(suffix) + 1, Len(s)) = suffix

RECURSIVE RemoveChars(_, _)
\* s.translate(table) for a table that deletes chars
RemoveChars(s, chars) ==
    IF s = <<>> THEN <<>>
    ELSE IF s[1] \in chars THEN RemoveChars(Tail(s), chars)
    ELSE <<s[1]>> \o RemoveChars(Tail(s), chars)

---------------------------------------------------------------------------
(* RAGSystem.preprocess_text *)

preprocess_text(text) ==
    join(<<" ">>, split(RemoveChars(lower(text), Punctuation)))

---------------------------------------------------------------------------
(* RAGSystem.split_into_sentences *)

RECURSIVE SkipWhitespace(_, _)
SkipWhitespace(s, i) ==
    IF i <= Len(s) /\ s[i] \in Whitespace THEN SkipWhitespace(s, i + 1) ELSE i

RECURSIVE ReSplitFrom(_, _, _)
ReSplitFrom(s, i, start) ==
    IF i > Len(s)
    THEN <<SubSeq(s, start, Len(s))>>
    ELSE IF i > 1 /\ s[i - 1] \in Terminators /\ s[i] \in Whitespace
         THEN LET j == SkipWhitespace(s, i)
              IN  <<SubSeq(s, start, i - 1)>> \o ReSplitFrom(s, j, j)
         ELSE ReSplitFrom(s, i + 1, start)

\* re.split on the sentence-boundary pattern: cut at every whitespace run that follows . ! or ?
ReSplitSentences(text) == ReSplitFrom(text, 1, 1)

\* a fragment is kept with more than this many words, whatever its last character
SubstantialWords == 5

RECURSIVE CleanSentences(_)
CleanSentences(fragments) ==
    IF fragments = <<>> THEN <<>>
    ELSE LET s == strip(fragments[1], Whitespace)
             rest == CleanSentences(Tail(fragments))
         IN  IF s # <<>> /\ (s[Len(s)] \in Terminators \/ Len(split(s)) > SubstantialWords)
             THEN IF s[Len(s)] \notin Terminators
                  THEN <<s \o <<".">> >> \o rest
                  ELSE <<s>> \o rest
             ELSE rest

split_into_sentences(text) == CleanSentences(ReSplitSentences(text))

---------------------------------------------------------------------------
(* RAGSystem.create_passages *)

RECURSIVE SegmentLoop(_, _, _, _, _)
\* the for loop of create_passages and the flush that follows it
SegmentLoop(sentences, max_words, done, current_passage, current_word_count) ==
    IF sentences = <<>>
    THEN IF current_passage # <<>>
         THEN Append(done, join(<<" ">>, current_passage))
         ELSE done
    ELSE LET sentence == sentences[1]
             word_count == Len(split(sentence))
         IN  IF current_word_count + word_count > max_words /\ current_passage # <<>>
             THEN SegmentLoop(Tail(sentences), max_words,
                              Append(done, join(<<" ">>, current_passage)),
                              <<sentence>>, word_count)
             ELSE SegmentLoop(Tail(sentences), max_words, done,
                              Append(current_passage, sentence),
                              current_word_count + word_count)

RECURSIVE SegmentLoopNoFlush(_, _, _, _, _)
\* the loop without the flush of the last accumulator
SegmentLoopNoFlush(sentences, max_words, done, current_passage, current_word_count) ==
    IF sentences = <<>>
    THEN done
    ELSE LET sentence == sentences[1]
             word_count == Len(split(sentence))
         IN  IF current_word_count + word_count > max_words /\ current_passage # <<>>
             THEN SegmentLoopNoFlush(Tail(sentences), max_words,
                              Append(done, join(<<" ">>, current_passage)),
                              <<sentence>>, word_count)
             ELSE SegmentLoopNoFlush(Tail(sentences), max_words, done,
                              Append(current_passage, sentence),
                              current_word_count + word_count)

RECURSIVE SegmentLoopLateClose(_, _, _, _, _)
\* the loop closing a passage only once the accumulator alone is over the limit
SegmentLoopLateClose(sentences, max_words, done, current_passage, current_word_count) ==
    IF sentences = <<>>
    THEN IF current_passage # <<>>
         THEN Append(done, join(<<" ">>, current_passage))
         ELSE done
    ELSE LET sentence == sentences[1]
             word_count == Len(split(sentence))
         IN  IF current_word_count > max_words /\ current_passage # <<>>
             THEN SegmentLoopLateClose(Tail(sentences), max_words,
                              Append(done, join(<<" ">>, current_passage)),
                              <<sentence>>, word_count)
             ELSE SegmentLoopLateClose(Tail(sentences), max_words, done,
                              Append(current_passage, sentence),
                              current_word_count + word_count)

create_passages_no_flush(text, max_words) ==
    SegmentLoopNoFlush(split_into_sentences(text), max_words, <<>>, <<>>, 0)

create_passages_late_close(text, max_words) ==
    SegmentLoopLateClose(split_into_sentences(text), max_words, <<>>, <<>>, 0)

create_passages(text, max_words) ==
    SegmentLoop(split_into_sentences(text), max_words, <<>>, <<>>, 0)

---------------------------------------------------------------------------
(* RAGSystem.__init__ *)

DefaultMaxWords == 120

\* the fields RAGSystem(docs_dir, max_words_per_passage = max_words) sets: no
\* documents, no passages, a vectorizer not yet fitted, passage_vectors None
NewObject(max_words) ==
    [documents |-> <<>>,
     passages |-> <<>>,
     vectorizer |-> [fitted |-> FALSE, vocabulary |-> {}, idf |-> <<>>],
     passage_vectors |-> [is_none |-> TRUE, rows |-> <<>>],
     max_words_per_passage |-> max_words]

\* self: the fields of the object as they are
Self ==
    [documents |-> documents,
     passages |-> passages,
     vectorizer |-> vectorizer,
     passage_vectors |-> passage_vectors,
     max_words_per_passage |-> max_words_per_passage]

\* the object has the fields of obj
IsObject(obj) ==
    /\ documents = obj.documents
    /\ passages = obj.passages
    /\ vectorizer = obj.vectorizer
    /\ passage_vectors = obj.passage_vectors
    /\ max_words_per_passage = obj.max_words_per_passage

\* a method leaves the object with the fields of obj
Becomes(obj) ==
    /\ documents' = obj.documents
    /\ passages' = obj.passages
    /\ vectorizer' = obj.vectorizer
    /\ passage_vectors' = obj.passage_vectors
    /\ max_words_per_passage' = obj.max_words_per_passage

\* the object after RAGSystem(docs_dir, max_words_per_passage = max_words)
Constructed(max_words) == IsObject(NewObject(max_words))

ObjectUnchanged ==
    UNCHANGED <<documents, passages, vectorizer, passage_vectors, max_words_per_passage>>

---------------------------------------------------------------------------
(* Segmentation on its own: create_passages applied to bounded texts *)

MaxPieces == 5
MaxWordsBound == 3

RECURSIVE WordRun(_)
\* n one-letter words separated by single spaces
WordRun(n) == IF n <= 1 THEN <<"w">> ELSE <<"w", " ">> \o WordRun(n - 1)

\* what a text is put together from: a word, a full stop, a space, and runs of
\* words just at and just over the length that makes a fragment substantial
Pieces ==
    {<<"w">>, <<".">>, <<" ">>, WordRun(SubstantialWords), WordRun(SubstantialWords + 1)}

RECURSIVE TextsOf(_)
TextsOf(n) ==
    IF n = 0 THEN {<<>>}
    ELSE LET shorter == TextsOf(n - 1)
         IN  shorter \cup {t \o p : t \in shorter, p \in Pieces}

TextInputs == TextsOf(MaxPieces)

\* a fresh object and a text about to be segmented
InitPassages ==
    \E max_words \in -1..MaxWordsBound, text \in TextInputs :
        /\ Constructed(max_words)
        /\ call = [op |-> "pending", text |-> text]

CreatePassagesCall ==
    /\ call.op = "pending"
    /\ call' = [op |-> "create_passages", text |-> call.text,
                result |-> create_passages(call.text, max_words_per_passage)]
    /\ ObjectUnchanged

NextPassages == CreatePassagesCall

SpecPassages == InitPassages /\ [][NextPassages]_vars

---------------------------------------------------------------------------
(* Claims on segmentation *)

WordCount(s) == Len(split(s))

RECURSIVE Flatten(_)
Flatten(seqs) == IF seqs = <<>> THEN <<>> ELSE seqs[1] \o Flatten(Tail(seqs))

\* the sentences of each passage of a create_passages result, concatenated
SentencesOfPassages(ps) ==
    Flatten(List([i \in 1..Len(ps) |-> split_into_sentences(ps[i])]))

\* C6: every passage create_passages returns has at most max_words_per_passage
\* words, or is a single sentence that alone has more words than that.
C6_PassageBound ==
    call.op = "create_passages" =>
        \A i \in 1..Len(call.result) :
            \/ WordCount(call.result[i]) <= max_words_per_passage
            \/ /\ Len(split_into_sentences(call.result[i])) = 1
               /\ WordCount(split_into_sentences(call.result[i])[1]) > max_words_per_passage

\* a call that returned a grouped passage, then a single over-long sentence
C6_Witness ==
    /\ call.op = "create_passages"
    /\ max_words_per_passage = 2
    /\ Len(call.result) >= 2
    /\ Len(split_into_sentences(call.result[1])) = 2
    /\ WordCount(call.result[2]) > max_words_per_passage

\* C7: the passages create_passages returns, each read as its sentences and
\* taken in order, are exactly split_into_sentences(text), and none is empty.
C7_SegmentationComplete ==
    call.op = "create_passages" =>
        /\ SentencesOfPassages(call.result) = split_into_sentences(call.text)
        /\ \A i \in 1..Len(call.result) : call.result[i] # <<>>

\* a call whose text has three sentences, grouped into two passages
C7_Witness ==
    /\ call.op = "create_passages"
    /\ Len(split_into_sentences(call.text)) = 3
    /\ Len(call.result) = 2

---------------------------------------------------------------------------
(* RAGSystem.extract_keywords *)

stop_words ==
    {<<"w", "h", "a", "t">>, <<"i", "s">>, <<"t", "h", "e">>, <<"h", "o", "w">>,
     <<"d", "o">>, <<"i">>, <<"d", "o", "e", "s">>, <<"h", "a", "v", "e">>,
     <<"f", "o", "r">>, <<"m", "a", "n", "y">>, <<"l", "o", "n", "g">>, <<"t", "o">>,
     <<"a">>, <<"a", "n">>, <<"a", "r", "e">>, <<"g", "e", "t">>, <<"c", "a", "n">>,
     <<"m", "y">>, <<"s", "c", "h", "e", "d", "u", "l", "e">>, <<"t", "a", "k", "e">>}

RECURSIVE KeepNotStopped(_)
\* [w.strip(string.punctuation) for w in words if w.lower() not in stop_words]
KeepNotStopped(words) ==
    IF words = <<>> THEN <<>>
    ELSE IF lower(words[1]) \notin stop_words
         THEN <<strip(words[1], Punctuation)>> \o KeepNotStopped(Tail(words))
         ELSE KeepNotStopped(Tail(words))

extract_keywords(query) == KeepNotStopped(split(lower(query)))

---------------------------------------------------------------------------
(* Keyword extraction on its own: extract_keywords applied to bounded queries *)

MaxQueryLen == 4

\* two one-letter stop words (one in upper case), a letter that is none,
\* a punctuation mark and a space
QueryChars == {"a", "I", "x", "?", " "}

RECURSIVE StringsOver(_, _)
StringsOver(chars, n) ==
    IF n = 0 THEN {<<>>}
    ELSE LET shorter == StringsOver(chars, n - 1)
         IN  shorter \cup {Append(t, c) : t \in shorter, c \in chars}

QueryInputs == StringsOver(QueryChars, MaxQueryLen)

\* a fresh object and a query about to be analysed
InitKeywords ==
    \E query \in QueryInputs :
        /\ Constructed(DefaultMaxWords)
        /\ call = [op |-> "pending", query |-> query]

ExtractKeywordsCall ==
    /\ call.op = "pending"
    /\ call' = [op |-> "extract_keywords", query |-> call.query,
                result |-> extract_keywords(call.query)]
    /\ ObjectUnchanged

NextKeywords == ExtractKeywordsCall

SpecKeywords == InitKeywords /\ [][NextKeywords]_vars

---------------------------------------------------------------------------
(* Claims on keyword extraction *)

RECURSIVE DropStopWords(_)
DropStopWords(words) ==
    IF words = <<>> THEN <<>>
    ELSE IF words[1] \in stop_words THEN DropStopWords(Tail(words))
    ELSE <<words[1]>> \o DropStopWords(Tail(words))

\* the query's words, each stripped of punctuation and lowercased
StrippedLowerWords(query) ==
    LET words == split(query)
    IN  List([i \in 1..Len(words) |-> lower(strip(words[i], Punctuation))])

\* C9: extract_keywords returns the query's words, punctuation-stripped and
\* lowercased, less those that are then stop words; no keyword is a stop word.
C9_KeywordsAreStrippedNonStopWords ==
    call.op = "extract_keywords" =>
        /\ call.result = DropStopWords(StrippedLowerWords(call.query))
        /\ \A i \in 1..Len(call.result) : call.result[i] \notin stop_words

---------------------------------------------------------------------------
(* TfidfVectorizer and cosine_similarity, as index_passages and retrieve use them *)

\* \w, on lowercased text
WordChars == {LowerLetters[i] : i \in 1..Len(LowerLetters)} \cup Digits \cup {"_"}

RECURSIVE TokensFrom(_, _, _)
TokensFrom(s, i, cur) ==
    LET close == IF Len(cur) >= 2 THEN <<cur>> ELSE <<>>
    IN  IF i > Len(s) THEN close
        ELSE IF s[i] \in WordChars
             THEN TokensFrom(s, i + 1, Append(cur, s[i]))
             ELSE close \o TokensFrom(s, i + 1, <<>>)

\* the vectorizer's analyzer: lowercase, then every run of two or more word characters
Tokens(text) == TokensFrom(lower(text), 1, <<>>)

Count(term, tokens) == Cardinality({i \in 1..Len(tokens) : tokens[i] = term})

\* 10 * (ln((1 + n) / (1 + df)) + 1), rounded: the smoothed idf of a term found in
\* df of n passages
IdfTenths(n, df) ==
    << <<10>>,
       <<14, 10>>,
       <<17, 13, 10>>,
       <<19, 15, 12, 10>>,
       <<21, 17, 14, 12, 10>>,
       <<23, 18, 16, 13, 12, 10>>,
       <<24, 20, 17, 15, 13, 11, 10>>,
       <<25, 21, 18, 16, 14, 13, 11, 10>> >>[n][df]

\* the vocabulary and idf weights fit_transform learns from the texts
Fitted(texts) ==
    LET tokens == List([i \in 1..Len(texts) |-> Tokens(texts[i])])
        vocabulary == UNION {{tokens[i][j] : j \in 1..Len(tokens[i])} : i \in 1..Len(texts)}
        df(term) == Cardinality({i \in 1..Len(texts) : Count(term, tokens[i]) > 0})
    IN  [fitted |-> TRUE, vocabulary |-> vocabulary,
         idf |-> [term \in vocabulary |-> IdfTenths(Len(texts), df(term))]]

\* vectorizer.transform([text])[0], before its L2 normalisation (which the cosine
\* does not see): term count times idf, terms outside the vocabulary ignored
Transform(vec, text) ==
    LET tokens == Tokens(text)
    IN  [term \in vec.vocabulary |-> Count(term, tokens) * vec.idf[term]]

RECURSIVE SumOver(_, _)
SumOver(f, terms) ==
    IF terms = {} THEN 0
    ELSE LET t == CHOOSE x \in terms : TRUE
         IN  f[t] + SumOver(f, terms \ {t})

Dot(u, v) == SumOver([t \in DOMAIN u |-> u[t] * v[t]], DOMAIN u)

RECURSIVE SqrtBetween(_, _, _)
\* the r with lo <= r < hi and r * r <= x < (r + 1) * (r + 1)
SqrtBetween(x, lo, hi) ==
    IF hi - lo <= 1 THEN lo
    ELSE LET mid == (lo + hi) \div 2
         IN  IF mid * mid <= x THEN SqrtBetween(x, mid, hi) ELSE SqrtBetween(x, lo, mid)

\* the integer square root, for x below 2^31
ISqrt(x) == SqrtBetween(x, 0, IF x < 46340 THEN x + 1 ELSE 46341)


ScoreScale == 1000

\* cosine_similarity of a query vector and a passage row, in units of 1/ScoreScale
\* rounded down; 0 when either vector is all zero
CosineSimilarity(u, v) ==
    LET dot == Dot(u, v)
    IN   IF dot = 0 THEN 0
        ELSE (ScoreScale * dot) \div ISqrt(Dot(u, u) * Dot(v, v))

---------------------------------------------------------------------------
(* RAGSystem.ingest_documents *)

RECURSIVE Decimal(_)
\* str(i) for i >= 0
Decimal(i) ==
    LET digit(d) == <<"0", "1", "2", "3", "4", "5", "6", "7", "8", "9">>[d + 1]
    IN  IF i < 10 THEN <<digit(i)>> ELSE Decimal(i \div 10) \o <<digit(i % 10)>>

\* filename + "_passage_" + str(i)
PassageId(filename, i) ==
    filename \o <<"_", "p", "a", "s", "s", "a", "g", "e", "_">> \o Decimal(i)

TxtSuffix == <<".", "t", "x", "t">>

\* [f for f in listing if f.endswith(".txt")]
TxtFiles(listing) == SelectSeq(listing, LAMBDA f : EndsWith(f.name, TxtSuffix))

\* the Passage objects of one file, numbered from 0
PassagesOfFile(file, max_words) ==
    LET texts == create_passages(file.content, max_words)
    IN  List([i \in 1..Len(texts) |->
                 [text |-> texts[i], source |-> file.name,
                  passage_id |-> PassageId(file.name, i - 1)]])

RECURSIVE PassagesOfFiles(_, _)
PassagesOfFiles(files, max_words) ==
    IF files = <<>> THEN <<>>
    ELSE PassagesOfFile(files[1], max_words) \o PassagesOfFiles(Tail(files), max_words)

MaxDocuments == 2

\* the files a docs directory may hold: two with sentences, one with a bare
\* title, one that is no .txt file, one whose words all have a single letter
FilePool ==
    {
     [name |-> <<"a", ".", "t", "x", "t">>,
      content |->
          <<"T", "h", "e", " ", "p", "u", "m", "p", " ", "h", "a", "s", " ", "a",
            " ", "2", " ", "y", "e", "a", "r", " ", "c", "o", "v", "e", "r", ".",
            " ", "O", "i", "l", " ", "t", "h", "e", " ", "p", "u", "m", "p", ".">>],
     [name |-> <<"b", ".", "t", "x", "t">>,
      content |-> <<"T", "i", "t", "l", "e">>],
     [name |-> <<"c", ".", "m", "d">>,
      content |-> <<"p", "u", "m", "p">>],
     [name |-> <<"d", ".", "t", "x", "t">>,
      content |->
          <<"K", "e", "e", "p", " ", "t", "h", "e", " ", "p", "u", "m", "p", " ",
            "o", "i", "l", " ", "a", "t", " ", "4", " ", "b", "a", "r", ".">>],
     [name |-> <<"e", ".", "t", "x", "t">>,
      content |-> <<"a", " ", "b", ".">>]}

\* os.listdir(docs_dir), in the order the system gives: up to n files of the pool
RECURSIVE ListingsOf(_)
ListingsOf(n) ==
    IF n = 0 THEN {<<>>}
    ELSE LET shorter == ListingsOf(n - 1)
         IN  shorter \cup {Append(l, f) : l \in {x \in shorter : Len(x) = n - 1},
                                          f \in FilePool}

DistinctFiles(listing) ==
    \A i, j \in 1..Len(listing) : i # j => listing[i].name # listing[j].name

\* the Document objects of the files read
DocumentsOfFiles(files) ==
    List([i \in 1..Len(files) |->
             [filename |-> files[i].name, content |-> files[i].content]])

\* self after ingest_documents; dir_exists: os.path.exists(self.docs_dir).  A
\* missing directory and one without .txt files return early; otherwise every
\* file is read and its documents and passages are appended.
ingest_documents(self, dir_exists, listing) ==
    LET txt_files == TxtFiles(listing)
    IN  IF ~dir_exists \/ txt_files = <<>>
        THEN self
        ELSE [self EXCEPT
                 !.documents = @ \o DocumentsOfFiles(txt_files),
                 !.passages = @ \o PassagesOfFiles(txt_files, self.max_words_per_passage)]

\* a call of ingest_documents, while the object holds no more than MaxDocuments
IngestDocuments(dir_exists, listing) ==
    /\ Len(documents) + Len(TxtFiles(listing)) <= MaxDocuments
    /\ Becomes(ingest_documents(Self, dir_exists, listing))
    /\ call' = [op |-> "ingest_documents", outcome |-> "return"]

---------------------------------------------------------------------------
(* RAGSystem.index_passages *)

\* [self.preprocess_text(p.text) for p in passage_list]
PreprocessedPassages(passage_list) ==
    List([i \in 1..Len(passage_list) |-> preprocess_text(passage_list[i].text)])

\* the rows of vectorizer.fit_transform(texts), given what the fit learned
FitTransformRows(fit, texts) ==
    List([i \in 1..Len(texts) |-> Transform(fit, texts[i])])

\* how index_passages ends and self after it: with no passages it returns
\* early; fit_transform raises on an empty vocabulary before anything is
\* assigned; otherwise the vectorizer is fitted and passage_vectors holds one
\* row per passage
index_passages(self) ==
    LET preprocessed_passages == PreprocessedPassages(self.passages)
        fit == Fitted(preprocessed_passages)
    IN  IF self.passages = <<>>
        THEN [outcome |-> "return", self |-> self]
        ELSE IF fit.vocabulary = {}
        THEN [outcome |-> "raise", self |-> self]
        ELSE [outcome |-> "return",
              self |-> [self EXCEPT
                           !.vectorizer = fit,
                           !.passage_vectors =
                               [is_none |-> FALSE,
                                rows |-> FitTransformRows(fit, preprocessed_passages)]]]

\* a call of index_passages
IndexPassages ==
    LET done == index_passages(Self)
    IN  /\ Becomes(done.self)
        /\ call' = [op |-> "index_passages", outcome |-> done.outcome]

---------------------------------------------------------------------------
(* RAGSystem.retrieve *)

Min(a, b) == IF a < b THEN a ELSE b
Max(a, b) == IF a > b THEN a ELSE b

\* similarities: cosine_similarity(query_vector, self.passage_vectors)[0]
Similarities(query) ==
    LET query_vector == Transform(vectorizer, preprocess_text(query))
    IN  List([i \in 1..Len(passage_vectors.rows) |->
                 CosineSimilarity(query_vector, passage_vectors.rows[i])])

RECURSIVE AscendingOrders(_, _)
\* np.argsort(similarities): the index orders that put the scores in ascending
\* order.  The default sort kind is not stable, so equal scores may come out in
\* any order.
AscendingOrders(similarities, indices) ==
    IF indices = {} THEN {<<>>}
    ELSE LET least == {i \in indices : \A j \in indices : similarities[i] <= similarities[j]}
         IN  UNION {{<<i>> \o rest : rest \in AscendingOrders(similarities, indices \ {i})} :
                    i \in least}

Reversed(seq) == List([i \in 1..Len(seq) |-> seq[Len(seq) + 1 - i]])

\* order[:k][::-1]: the first k of the ascending order, reversed
TopKIndicesFromHead(order, k) ==
    Reversed(SubSeq(order, 1, IF k >= 0 THEN Min(k, Len(order)) ELSE Max(Len(order) + k, 0)))

\* order[-k:][::-1]: a slice that starts at -k, which counts from the end when
\* negative (k > 0) and from the start otherwise (k <= 0), reversed
TopKIndices(order, k) ==
    LET start == IF -k < 0 THEN Max(Len(order) - k, 0) ELSE Min(-k, Len(order))
    IN  Reversed(SubSeq(order, start + 1, Len(order)))

\* the outcomes of retrieve(query, k): transform raises on a vectorizer that was
\* never fitted; otherwise one result list per order argsort may give
RetrieveOutcomes(query, k) ==
    IF ~vectorizer.fitted
    THEN {[outcome |-> "raise", error |-> "NotFittedError"]}
    ELSE LET similarities == Similarities(query)
             Outcome(top_k_indices) ==
                 [outcome |-> "return",
                  top_k_indices |-> top_k_indices,
                  similarities |-> similarities,
                  results |-> List([r \in 1..Len(top_k_indices) |->
                                       [passage |-> passages[top_k_indices[r]],
                                        score |-> similarities[top_k_indices[r]]]])]
         IN  {Outcome(TopKIndices(order, k)) :
              order \in AscendingOrders(similarities, DOMAIN similarities)}

Retrieve(query, k) ==
    /\ \E out \in RetrieveOutcomes(query, k) :
           call' = [op |-> "retrieve", query |-> query, k |-> k, out |-> out]
    /\ ObjectUnchanged

---------------------------------------------------------------------------
(* RAGSystem.score_sentence_relevance *)

\* the scoring with the length penalty already at 50 words
score_sentence_relevance_penalty_from_50(sentence, keywords, query_lower) ==
    LET sentence_lower == lower(sentence)
        query_words == split(query_lower)
        keyword_hits == Cardinality({i \in 1..Len(keywords) :
                                        IsSubstring(keywords[i], sentence_lower)})
        word_hits == Cardinality({i \in 1..Len(query_words) :
                                     /\ Len(query_words[i]) > 3
                                     /\ IsSubstring(query_words[i], sentence_lower)})
        word_count == Len(split(sentence))
    IN  2 * keyword_hits
        + word_hits
        - (IF word_count >= 50 THEN 2 ELSE 0)
        + (IF \E i \in 1..Len(sentence) : sentence[i] \in Digits THEN 1 ELSE 0)

score_sentence_relevance(sentence, keywords, query_lower) ==
    LET sentence_lower == lower(sentence)
        query_words == split(query_lower)
        keyword_hits == Cardinality({i \in 1..Len(keywords) :
                                        IsSubstring(keywords[i], sentence_lower)})
        word_hits == Cardinality({i \in 1..Len(query_words) :
                                     /\ Len(query_words[i]) > 3
                                     /\ IsSubstring(query_words[i], sentence_lower)})
        word_count == Len(split(sentence))
    IN  2 * keyword_hits
        + word_hits
        - (IF word_count > 50 THEN 2 ELSE 0)
        + (IF \E i \in 1..Len(sentence) : sentence[i] \in Digits THEN 1 ELSE 0)

---------------------------------------------------------------------------
(* RAGSystem.generate_answer *)

NoAnswer ==
    <<"I", " ", "c", "o", "u", "l", "d", "n", "'", "t", " ", "f", "i", "n",
      "d", " ", "r", "e", "l", "e", "v", "a", "n", "t", " ", "i", "n", "f",
      "o", "r", "m", "a", "t", "i", "o", "n", " ", "t", "o", " ", "a", "n",
      "s", "w", "e", "r", " ", "t", "h", "i", "s", " ", "q", "u", "e", "s",
      "t", "i", "o", "n", ".">>

\* a score is below the 0.01 confidence floor
BelowFloor(score) == score * 100 < ScoreScale

\* the candidate sentences of one retrieved passage, in order
CandidatesOfResult(result, keywords, query_lower) ==
    LET sentences == split_into_sentences(result.passage.text)
        scored == List([i \in 1..Len(sentences) |->
                           [sentence |-> sentences[i],
                            score |-> score_sentence_relevance(sentences[i], keywords,
                                                               query_lower),
                            source |-> result.passage.source,
                            passage_score |-> result.score]])
    IN  SelectSeq(scored, LAMBDA c : Len(split(c.sentence)) >= 5 /\ c.score > 0)

\* candidate_sentences: those of every retrieved passage, in retrieval order
CandidateSentences(query, retrieved_results) ==
    LET keywords == extract_keywords(query)
        query_lower == lower(query)
    IN  Flatten(List([r \in 1..Len(retrieved_results) |->
                         CandidatesOfResult(retrieved_results[r], keywords, query_lower)]))

\* a sorts at or before b under key (score, passage_score), descending
KeyAtLeast(a, b) ==
    \/ a.score > b.score
    \/ a.score = b.score /\ a.passage_score >= b.passage_score

\* the sort by relevance score alone
FirstBestByRelevance(candidates) ==
    candidates[CHOOSE i \in 1..Len(candidates) :
                  /\ \A j \in 1..Len(candidates) : candidates[i].score >= candidates[j].score
                  /\ \A j \in 1..(i - 1) : candidates[j].score < candidates[i].score]

\* candidate_sentences.sort(key = ..., reverse = True)[0]: the sort is stable, so
\* of the candidates with the greatest key the earliest comes first
FirstBest(candidates) ==
    candidates[CHOOSE i \in 1..Len(candidates) :
                  /\ \A j \in 1..Len(candidates) : KeyAtLeast(candidates[i], candidates[j])
                  /\ \A j \in 1..(i - 1) : ~KeyAtLeast(candidates[j], candidates[i])]

\* strip the sentence and end it with a full stop if it has no terminator
CleanAnswer(sentence) ==
    LET stripped == strip(sentence, Whitespace)
    IN  IF stripped # <<>> /\ stripped[Len(stripped)] \in Terminators
        THEN stripped
        ELSE stripped \o <<".">>

\* generate_answer with the floor test left out
generate_answer_no_floor(query, retrieved_results) ==
    IF retrieved_results = <<>>
    THEN [answer |-> NoAnswer, sources |-> <<>>]
    ELSE LET candidates == CandidateSentences(query, retrieved_results)
             top_passage == retrieved_results[1].passage
             sentences == split_into_sentences(top_passage.text)
             best == FirstBest(candidates)
         IN  IF candidates = <<>>
             THEN [answer |-> CleanAnswer(IF sentences # <<>> THEN sentences[1]
                                          ELSE top_passage.text),
                   sources |-> <<top_passage.source>>]
             ELSE [answer |-> CleanAnswer(best.sentence), sources |-> <<best.source>>]

generate_answer(query, retrieved_results) ==
    IF retrieved_results = <<>> \/ BelowFloor(retrieved_results[1].score)
    THEN [answer |-> NoAnswer, sources |-> <<>>]
    ELSE LET candidates == CandidateSentences(query, retrieved_results)
             top_passage == retrieved_results[1].passage
             sentences == split_into_sentences(top_passage.text)
             best == FirstBest(candidates)
         IN  IF candidates = <<>>
             THEN [answer |-> CleanAnswer(IF sentences # <<>> THEN sentences[1]
                                          ELSE top_passage.text),
                   sources |-> <<top_passage.source>>]
             ELSE [answer |-> CleanAnswer(best.sentence), sources |-> <<best.source>>]

---------------------------------------------------------------------------
(* RAGSystem.answer_query *)

\* retrieve, then generate_answer on what it returned; an exception of retrieve
\* passes through
AnswerQueryOutcomes(query, k) ==
    LET Answered(retrieved_results, generated) ==
            [outcome |-> "return",
             retrieved_results |-> retrieved_results,
             answer |-> generated.answer,
             sources |-> generated.sources]
    IN  {IF r.outcome = "raise" THEN r
         ELSE Answered(r.results, generate_answer(query, r.results)) :
         r \in RetrieveOutcomes(query, k)}

AnswerQuery(query, k) ==
    /\ \E out \in AnswerQueryOutcomes(query, k) :
           call' = [op |-> "answer_query", query |-> query, k |-> k, out |-> out]
    /\ ObjectUnchanged

---------------------------------------------------------------------------
(* The object under any sequence of ingest_documents and index_passages calls *)

SmallMaxWords == 6

Init ==
    /\ \E max_words \in {SmallMaxWords, DefaultMaxWords} : Constructed(max_words)
    /\ call = [op |-> "__init__"]

\* ingest_documents on a directory that is missing or holds some files of the pool
Ingest ==
    \E dir_exists \in BOOLEAN, listing \in ListingsOf(MaxDocuments) :
        DistinctFiles(listing) /\ IngestDocuments(dir_exists, listing)

Next ==
    \/ Ingest
    \/ IndexPassages

Spec == Init /\ [][Next]_vars

---------------------------------------------------------------------------
(* Claims on the index *)

\* C8: whenever the index has been fit, it holds one vector per passage, the
\* i-th being the TF-IDF vector of passages[i].
C8_IndexAlignedWithPassages ==
    ~passage_vectors.is_none =>
        /\ Len(passage_vectors.rows) = Len(passages)
        /\ \A i \in 1..Len(passages) :
               passage_vectors.rows[i] =
                   Transform(vectorizer, preprocess_text(passages[i].text))

---------------------------------------------------------------------------
(* Queries on their own: retrieve and answer_query applied to bounded queries *)
(* and k, on an object that a first ingest_documents, then possibly           *)
(* index_passages, then a second ingest_documents have left                   *)

MaxK == 3

\* the queries asked: the empty one, one word of the documents, two words with
\* a capital and a question mark
QueryPool ==
    {<<>>,
     <<"p", "u", "m", "p">>,
     <<"O", "i", "l", " ", "p", "u", "m", "p", "?">>}

KPool == -1..MaxK

\* self after the calls; a listing without .txt files stands for a call that
\* returned early, a missing directory included
AfterCalls(max_words, first, indexed, second) ==
    LET ingested == ingest_documents(NewObject(max_words), TRUE, first)
        fitted == IF indexed THEN index_passages(ingested).self ELSE ingested
    IN  ingest_documents(fitted, TRUE, second)

InitQuery ==
    /\ \E max_words \in {SmallMaxWords, DefaultMaxWords}, indexed \in BOOLEAN,
          first \in ListingsOf(MaxDocuments), second \in ListingsOf(MaxDocuments) :
           /\ DistinctFiles(first)
           /\ DistinctFiles(second)
           /\ Len(TxtFiles(first)) + Len(TxtFiles(second)) <= MaxDocuments
           /\ IsObject(AfterCalls(max_words, first, indexed, second))
    /\ \E method \in {"retrieve", "answer_query"}, query \in QueryPool, k \in KPool :
           call = [op |-> "pending", method |-> method, query |-> query, k |-> k]

RetrievePending ==
    /\ call.op = "pending"
    /\ call.method = "retrieve"
    /\ Retrieve(call.query, call.k)

AnswerQueryPending ==
    /\ call.op = "pending"
    /\ call.method = "answer_query"
    /\ AnswerQuery(call.query, call.k)

NextQuery == RetrievePending \/ AnswerQueryPending

SpecQuery == InitQuery /\ [][NextQuery]_vars

---------------------------------------------------------------------------
(* Claims on retrieval *)

Retrieved == call.op = "retrieve" /\ call.out.outcome = "return"

\* C1: among passages of equal similarity, retrieve puts the one of lower index
\* first, and at the cut-off returns the one of lower index.
C1_TiesByLowerIndex ==
    (Retrieved /\ call.k >= 1) =>
        LET top == call.out.top_k_indices
            similarities == call.out.similarities
        IN  /\ \A a, b \in 1..Len(top) :
                   (a < b /\ similarities[top[a]] = similarities[top[b]]) => top[a] < top[b]
            /\ \A a \in 1..Len(top), i \in (DOMAIN similarities) \ Range(top) :
                   similarities[i] = similarities[top[a]] => top[a] < i

\* C2: on a fitted index of N passages, retrieve with k >= 1 returns min(k, N)
\* results, each a different passage with its own score, in non-increasing order
\* of score, and no passage left out scores higher than one returned.
C2_TopK ==
    (Retrieved /\ call.k >= 1) =>
        LET top == call.out.top_k_indices
            results == call.out.results
            similarities == call.out.similarities
            N == Len(passage_vectors.rows)
        IN  /\ N >= 1
            /\ Len(results) = Min(call.k, N)
            /\ Len(top) = Len(results)
            /\ \A a, b \in 1..Len(top) : a # b => top[a] # top[b]
            /\ \A a \in 1..Len(top) :
                   /\ top[a] \in 1..N
                   /\ results[a].passage = passages[top[a]]
                   /\ results[a].score = similarities[top[a]]
                   /\ results[a].score =
                          CosineSimilarity(Transform(vectorizer, preprocess_text(call.query)),
                                           passage_vectors.rows[top[a]])
            /\ \A a \in 1..(Len(results) - 1) : results[a].score >= results[a + 1].score
            /\ \A a \in 1..Len(top), i \in (1..N) \ Range(top) :
                   similarities[i] <= results[a].score

\* retrieve asked for more passages than the two indexed, which score differently
C2_Witness ==
    /\ Retrieved
    /\ Len(passage_vectors.rows) = 2
    /\ call.k > 2
    /\ Len(call.out.results) = 2
    /\ call.out.results[1].score > call.out.results[2].score

\* C3: on a fitted index, retrieve with k <= 0 returns an empty list and does
\* not raise.
C3_NonPositiveKIsEmpty ==
    (call.op = "retrieve" /\ call.k <= 0 /\ vectorizer.fitted) =>
        /\ call.out.outcome = "return"
        /\ call.out.results = <<>>

\* C4: with no passages ingested, once index_passages has been called, retrieve
\* returns an empty list and answer_query the canned answer with no sources;
\* neither raises.  (With no passages index_passages returns early and changes
\* nothing, so the object is the same before and after that call.)
C4_NothingIndexedIsNoMatch ==
    passages = <<>> =>
        /\ call.op = "retrieve" =>
               call.out.outcome = "return" /\ call.out.results = <<>>
        /\ call.op = "answer_query" =>
               /\ call.out.outcome = "return"
               /\ call.out.answer = NoAnswer
               /\ call.out.sources = <<>>

---------------------------------------------------------------------------
(* Answer extraction on its own: generate_answer applied to bounded result   *)
(* lists, and answer_query, on an object that has ingested and indexed       *)

MaxResults == 2

FileNamed(name) == CHOOSE f \in FilePool : f.name = name

\* the directory the object was started on
StartFiles == <<FileNamed(<<"a", ".", "t", "x", "t">>), FileNamed(<<"d", ".", "t", "x", "t">>)>>

\* the object after ingest_documents and index_passages on the start directory
Started(max_words) ==
    IsObject(index_passages(ingest_documents(NewObject(max_words), TRUE, StartFiles)).self)

\* scores a caller may hand to generate_answer: none, just under the floor,
\* the floor, and a middling one
ScoreInputs == {0, (ScoreScale \div 100) - 1, ScoreScale \div 100, ScoreScale \div 2}

RECURSIVE ResultListsOf(_, _)
\* the result lists of up to n results over the given passages
ResultListsOf(passage_set, n) ==
    IF n = 0 THEN {<<>>}
    ELSE LET shorter == ResultListsOf(passage_set, n - 1)
         IN  shorter \cup
             {Append(l, [passage |-> p, score |-> sc]) :
              l \in {x \in shorter : Len(x) = n - 1}, p \in passage_set, sc \in ScoreInputs}

InitAnswer ==
    /\ \E max_words \in {SmallMaxWords, DefaultMaxWords} : Started(max_words)
    /\ \/ \E query \in QueryPool, results \in ResultListsOf(Range(passages), MaxResults) :
              call = [op |-> "pending", method |-> "generate_answer",
                      query |-> query, retrieved_results |-> results]
       \/ \E query \in QueryPool, k \in KPool :
              call = [op |-> "pending", method |-> "answer_query", query |-> query, k |-> k]

GenerateAnswerPending ==
    /\ call.op = "pending"
    /\ call.method = "generate_answer"
    /\ LET generated == generate_answer(call.query, call.retrieved_results)
       IN  call' = [op |-> "generate_answer", query |-> call.query,
                    out |-> [outcome |-> "return",
                             retrieved_results |-> call.retrieved_results,
                             answer |-> generated.answer,
                             sources |-> generated.sources]]
    /\ ObjectUnchanged

NextAnswer == GenerateAnswerPending \/ AnswerQueryPending

SpecAnswer == InitAnswer /\ [][NextAnswer]_vars

---------------------------------------------------------------------------
(* Claims on answer extraction *)

Generated == call.op = "generate_answer"

\* C5: generate_answer returns the canned sentence and no sources whenever the
\* results are empty or the first score is below the floor, whatever else it is
\* given; so answer_query with the empty query on a fitted index returns them.
C5_ConfidenceFloor ==
    /\ (Generated /\ (\/ call.out.retrieved_results = <<>>
                      \/ BelowFloor(call.out.retrieved_results[1].score)))
           => call.out.answer = NoAnswer /\ call.out.sources = <<>>
    /\ (call.op = "answer_query" /\ call.query = <<>> /\ vectorizer.fitted)
           => /\ call.out.outcome = "return"
              /\ call.out.answer = NoAnswer
              /\ call.out.sources = <<>>

\* generate_answer refused although a second result scores above the floor and
\* its passage has a sentence that matches the query
C5_Witness ==
    /\ Generated
    /\ extract_keywords(call.query) # <<>>
    /\ Len(call.out.retrieved_results) = 2
    /\ BelowFloor(call.out.retrieved_results[1].score)
    /\ ~BelowFloor(call.out.retrieved_results[2].score)
    /\ CandidateSentences(call.query, call.out.retrieved_results) # <<>>
    /\ call.out.answer = NoAnswer

\* the sentences of the retrieved passages that have 5 words or more and a
\* positive relevance score, each as <<result number, sentence number>>
Eligible(query, results) ==
    {e \in UNION {{<<r, i>> : i \in 1..Len(split_into_sentences(results[r].passage.text))} :
                  r \in 1..Len(results)} :
        LET sentence == split_into_sentences(results[e[1]].passage.text)[e[2]]
        IN  /\ Len(split(sentence)) >= 5
            /\ score_sentence_relevance(sentence, extract_keywords(query), lower(query)) > 0}

\* (relevance_score, passage_score) of an eligible sentence
PairOf(query, results, e) ==
    <<score_sentence_relevance(split_into_sentences(results[e[1]].passage.text)[e[2]],
                               extract_keywords(query), lower(query)),
      results[e[1]].score>>

LexAtLeast(p, q) == p[1] > q[1] \/ (p[1] = q[1] /\ p[2] >= q[2])

\* C10: when the top score is at or above the floor and some sentence of 5 or
\* more words has a positive relevance score, generate_answer returns a sentence
\* whose (relevance_score, passage_score) is greatest among those sentences, with
\* the source of that sentence's passage as the only source.
C10_BestSentence ==
    LET results == call.out.retrieved_results
        eligible == Eligible(call.query, results)
    IN  (/\ call.op \in {"generate_answer", "answer_query"}
         /\ call.out.outcome = "return"
         /\ results # <<>>
         /\ ~BelowFloor(results[1].score)
         /\ eligible # {})
        => \E e \in eligible :
               /\ \A f \in eligible : LexAtLeast(PairOf(call.query, results, e),
                                                 PairOf(call.query, results, f))
               /\ call.out.answer = split_into_sentences(results[e[1]].passage.text)[e[2]]
               /\ call.out.sources = <<results[e[1]].passage.source>>

\* two sentences of different documents tie on relevance, and the answer is the
\* one of the second result, whose passage scores higher
C10_Witness ==
    LET results == call.out.retrieved_results
    IN  /\ Generated
        /\ extract_keywords(call.query) # <<>>
        /\ Len(results) = 2
        /\ ~BelowFloor(results[1].score)
        /\ results[2].score > results[1].score
        /\ results[1].passage.source # results[2].passage.source
        /\ Eligible(call.query, results) = {<<1, 1>>, <<2, 1>>}
        /\ PairOf(call.query, results, <<1, 1>>)[1] = PairOf(call.query, results, <<2, 1>>)[1]
        /\ call.out.sources = <<results[2].passage.source>>

---------------------------------------------------------------------------
(* Sentence scoring on its own: score_sentence_relevance applied to bounded *)
(* sentences, keyword lists and queries                                     *)

\* the word count above which a sentence is penalised
LongSentence == 50

MaxKeywords == 2
LengthMargin == 1

\* the words of keyword lists: one of four letters that the sentences hold,
\* one of three, and one with a capital
ScoreWords ==
    {<<"p", "u", "m", "p">>, <<"o", "i", "l">>, <<"P", "u", "m", "p">>}

RECURSIVE ListsOver(_, _)
\* the lists of up to n items
ListsOver(items, n) ==
    IF n = 0 THEN {<<>>}
    ELSE LET shorter == ListsOver(items, n - 1)
         IN  shorter \cup {Append(l, x) : l \in {y \in shorter : Len(y) = n - 1}, x \in items}

\* keyword lists, as extract_keywords may give them: repeats, and the empty
\* keyword left of a word that was all punctuation
KeywordInputs == ListsOver(ScoreWords \cup {<<>>}, MaxKeywords)

\* queries: none, a long word, a short word, both with two spaces between, and
\* a long word three times, once with a capital
ScoreQueryInputs ==
    {<<>>,
     <<"p", "u", "m", "p">>,
     <<"o", "i", "l">>,
     <<"o", "i", "l", " ", " ", "p", "u", "m", "p">>,
     <<"p", "u", "m", "p", " ", "P", "u", "m", "p", " ", "p", "u", "m", "p">>}

\* how sentences start: with nothing, with words in capitals, with a digit
SentenceHeads ==
    {<<>>,
     <<"O", "i", "l", " ", "t", "h", "e", " ", "P", "U", "M", "P", ".">>,
     <<"T", "h", "e", " ", "p", "u", "m", "p", " ", "h", "a", "s", " ", "a",
       " ", "2", " ", "y", "e", "a", "r", " ", "c", "o", "v", "e", "r", ".">>}

\* the sentence followed by one-letter words until it has n words
PadTo(sentence, n) ==
    LET missing == n - Len(split(sentence))
    IN  IF missing <= 0 THEN sentence
        ELSE sentence \o List([i \in 1..(2 * missing) |-> IF i % 2 = 1 THEN " " ELSE "w"])

\* sentences as they start, and made as long as the penalty's limit or nearly
SentenceInputs ==
    SentenceHeads \cup
    {PadTo(head, n) : head \in SentenceHeads,
                      n \in (LongSentence - LengthMargin)..(LongSentence + LengthMargin)}

InitScore ==
    /\ \E max_words \in {DefaultMaxWords} : Constructed(max_words)
    /\ \E sentence \in SentenceInputs, keywords \in KeywordInputs,
          query_lower \in ScoreQueryInputs :
           call = [op |-> "pending", sentence |-> sentence, keywords |-> keywords,
                   query_lower |-> query_lower]

ScoreSentenceCall ==
    /\ call.op = "pending"
    /\ call' = [op |-> "score_sentence_relevance", sentence |-> call.sentence,
                keywords |-> call.keywords, query_lower |-> call.query_lower,
                result |-> score_sentence_relevance(call.sentence, call.keywords,
                                                    call.query_lower)]
    /\ ObjectUnchanged

NextScore == ScoreSentenceCall

SpecScore == InitScore /\ [][NextScore]_vars

---------------------------------------------------------------------------
(* Claims on sentence scoring *)

\* sub occurs in s: after some characters of s come those of sub, one by one
OccursIn(sub, s) ==
    \E before \in 0..Len(s) :
        /\ before + Len(sub) <= Len(s)
        /\ \A j \in 1..Len(sub) : s[before + j] = sub[j]

RECURSIVE Occurring(_, _)
\* how many items of the list, each counted as often as it is listed, occur in s
Occurring(words, s) ==
    IF words = <<>> THEN 0
    ELSE (IF OccursIn(words[1], s) THEN 1 ELSE 0) + Occurring(Tail(words), s)

\* the words of s: one for every character that ends a run of non-whitespace
WordEnds(s) ==
    {i \in 1..Len(s) : s[i] \notin Whitespace /\ (i = Len(s) \/ s[i + 1] \in Whitespace)}

\* the words of s longer than 3 characters, in order
LongWords(s) == SelectSeq(split(s), LAMBDA w : Len(w) >= 4)

Scored == call.op = "score_sentence_relevance"

\* C11: score_sentence_relevance returns 2 for every keyword, counted as often
\* as it is listed, that occurs in the lowercased sentence, plus 1 for every
\* query word longer than 3 characters that occurs in it, minus 2 if the
\* sentence has more than 50 words, plus 1 if it holds a digit.
C11_RelevanceScore ==
    Scored =>
        call.result =
            2 * Occurring(call.keywords, lower(call.sentence))
            + Occurring(LongWords(call.query_lower), lower(call.sentence))
            - (IF Cardinality(WordEnds(call.sentence)) > 50 THEN 2 ELSE 0)
            + (IF Range(call.sentence) \cap Digits # {} THEN 1 ELSE 0)

\* a sentence of exactly 50 words with a digit, scored for a keyword listed
\* twice that is also a long query word, after a query word that is short
C11_Witness ==
    /\ Scored
    /\ Cardinality(WordEnds(call.sentence)) = 50
    /\ Range(call.sentence) \cap Digits # {}
    /\ call.keywords = <<<<"p", "u", "m", "p">>, <<"p", "u", "m", "p">>>>
    /\ split(call.query_lower) = <<<<"o", "i", "l">>, <<"p", "u", "m", "p">>>>
    /\ call.result = 6

====
